---- MODULE Spec2Model ----
(***************************************************************************)
(* kubespresso: a controller that watches Pod events, decides whether the  *)
(* owner deserves a coffee, records the decision in an annotation through  *)
(* a conditional patch, and only then makes the coffee.                    *)
(*                                                                         *)
(* Strings that the program parses or formats (annotation values, resource *)
(* versions) are sequences of one-character strings, so that int() and     *)
(* str() are computed and not assumed.                                     *)
(***************************************************************************)
EXTENDS Integers, Sequences, FiniteSets, TLC

(***************************************************************************)
(* Bounds of the model.                                                    *)
(***************************************************************************)
MaxEvents == 2
MaxOtherWrites == 1

Instances == {"c1", "c2"}

(***************************************************************************)
(* Program constants.                                                      *)
(***************************************************************************)
LAST_MODIFIED_LABEL == "kubespresso.io/lastCoffeeGranted"
EXPECTED_DURATION_LABEL == "kubespresso.io/expectedDuration"
OTHER_LABEL == "app"

MinDuration == 60
Cooldown == 86400

REASON_TYPE == "coffee is granted only on ADDED or MODIFIED Pods"
REASON_KIND == "coffee is granted only for Pod objects"
REASON_DURATION == "Pod's expected duration is less than 60"
REASON_COOLDOWN == "you already received a coffee today"
REASON_OK == "you deserve a coffee"
REASON_ANNOTATED == "You definitely deserve a coffee!"
REASON_NEWER == "There is a newer version of the object. Please wait"

(***************************************************************************)
(* Python's int(str) and str(int).                                         *)
(***************************************************************************)
Digits == <<"0", "1", "2", "3", "4", "5", "6", "7", "8", "9">>

IsDigit(c) == \E d \in 1..10 : Digits[d] = c

DigitVal(c) == (CHOOSE d \in 1..10 : Digits[d] = c) - 1

RECURSIVE LStrip(_)
LStrip(s) == IF s # <<>> /\ Head(s) = " " THEN LStrip(Tail(s)) ELSE s

RECURSIVE RStrip(_)
RStrip(s) ==
    IF s # <<>> /\ s[Len(s)] = " " THEN RStrip(SubSeq(s, 1, Len(s) - 1)) ELSE s

Strip(s) == RStrip(LStrip(s))

\* the digits of an int literal: non-empty, digits and single underscores,
\* an underscore only between two digits
DigitsOK(s) ==
    /\ s # <<>>
    /\ \A k \in 1..Len(s) :
          \/ IsDigit(s[k])
          \/ /\ s[k] = "_"
             /\ k > 1
             /\ k < Len(s)
             /\ IsDigit(s[k - 1])
             /\ IsDigit(s[k + 1])

RECURSIVE DigitsValue(_, _)
DigitsValue(s, acc) ==
    IF s = <<>> THEN acc
    ELSE IF Head(s) = "_" THEN DigitsValue(Tail(s), acc)
    ELSE DigitsValue(Tail(s), 10 * acc + DigitVal(Head(s)))

HasSign(s) == s # <<>> /\ Head(s) \in {"+", "-"}

Unsigned(s) == IF HasSign(s) THEN Tail(s) ELSE s

\* int(s) raises ValueError
int_raises(s) == ~DigitsOK(Unsigned(Strip(s)))

\* int(s) when it does not raise
int_value(s) ==
    LET t == Strip(s)
        v == DigitsValue(Unsigned(t), 0)
    IN  IF HasSign(t) /\ Head(t) = "-" THEN 0 - v ELSE v

RECURSIVE NatStr(_)
NatStr(n) ==
    IF n < 10 THEN <<Digits[n + 1]>>
    ELSE Append(NatStr(n \div 10), Digits[(n % 10) + 1])

\* str(n)
str(n) == IF n < 0 THEN <<"-">> \o NatStr(0 - n) ELSE NatStr(n)

(***************************************************************************)
(* State.                                                                  *)
(*   clock      the value time.time() returns, in whole seconds            *)
(*   store      the Pod as the API server holds it                         *)
(*   streams    per controller instance, the watch events not yet handled  *)
(*   pc         per instance, the position of the handler                  *)
(*   cur        per instance, the event being handled (or handled last)    *)
(*   verdict    per instance, what event_deserves_coffee returned for cur  *)
(*              and the clock reading it used                              *)
(*   patch      per instance, the patch generated for cur                  *)
(*   outcome    per instance, how the handling of cur went                 *)
(*   logs       per instance, the log records emitted for cur              *)
(*   attempts   history: the patch calls the store answered, in order,     *)
(*              each with what apply_patch_on_pod made of the answer       *)
(*   coffees    history: the make_coffee invocations                       *)
(*   nextId     number of the next event the watch delivers                *)
(*   otherWrites  number of writes by writers other than the controller    *)
(***************************************************************************)
VARIABLES clock, store, streams, pc, cur, verdict, patch, outcome, logs,
          attempts, coffees, nextId, otherWrites

vars == <<clock, store, streams, pc, cur, verdict, patch, outcome, logs,
          attempts, coffees, nextId, otherWrites>>

EventTypes == {"ADDED", "MODIFIED", "DELETED"}

\* an annotation mapping is a function from the keys that are set to their
\* values; None and {} are both the empty function (the code tests
\* `if annotations:`, which treats them alike)
NoAnnotations == <<>>

EmptyStr == <<>>

\* the resource version an event's snapshot carries: None (here the empty
\* string, both falsy) when the store has none
SnapshotVersion(version) == IF version = 0 THEN EmptyStr ELSE str(version)

\* the object embedded in a watch event
Snapshot(s) ==
    [kind |-> s.kind,
     annotations |-> s.annotations,
     resource_version |-> SnapshotVersion(s.version)]

NoEvent == [id |-> 0, type |-> "NONE", object |-> Snapshot(
               [kind |-> "Pod", annotations |-> NoAnnotations, version |-> 0])]

NoVerdict == [raised |-> FALSE, ok |-> FALSE, reason |-> "none", now |-> 0]

NoPatch == [annotations |-> NoAnnotations, resource_version |-> EmptyStr]

(***************************************************************************)
(* The eligibility policy.                                                 *)
(***************************************************************************)
extract_field_from_event_annotations(event, annotation) ==
    LET annotations == event.object.annotations
    IN  IF DOMAIN annotations # {}
        THEN IF annotation \in DOMAIN annotations
             THEN annotations[annotation]
             ELSE EmptyStr
        ELSE EmptyStr

\* int(x or 0): the empty string is falsy, int(0) = 0
int_or_0_raises(x) == IF x = EmptyStr THEN FALSE ELSE int_raises(x)

int_or_0(x) == IF x = EmptyStr THEN 0 ELSE int_value(x)

Returns(ok, reason) == [raised |-> FALSE, ok |-> ok, reason |-> reason]

Raises(exception) == [raised |-> TRUE, ok |-> FALSE, reason |-> exception]

\* the subtraction the wrong way round
seconds_since_last_modification_reversed(event, now) ==
    int_or_0(extract_field_from_event_annotations(
                 event, LAST_MODIFIED_LABEL)) - now

seconds_since_last_modification(event, now) ==
    LET last_modified ==
            int_or_0(extract_field_from_event_annotations(
                         event, LAST_MODIFIED_LABEL))
    IN  now - last_modified

\* the kind rule before the type rule
event_deserves_coffee_kind_first(event, now) ==
    IF event.object.kind # "Pod"
    THEN Returns(FALSE, REASON_KIND)
    ELSE IF event.type \notin {"ADDED", "MODIFIED"}
    THEN Returns(FALSE, REASON_TYPE)
    ELSE Returns(TRUE, REASON_OK)

\* the policy without the cooldown rule
event_deserves_coffee_no_cooldown(event, now) ==
    LET duration == extract_field_from_event_annotations(
                        event, EXPECTED_DURATION_LABEL)
    IN  IF event.type \notin {"ADDED", "MODIFIED"}
        THEN Returns(FALSE, REASON_TYPE)
        ELSE IF event.object.kind # "Pod"
        THEN Returns(FALSE, REASON_KIND)
        ELSE IF int_or_0_raises(duration)
        THEN Raises("ValueError")
        ELSE IF int_or_0(duration) < MinDuration
        THEN Returns(FALSE, REASON_DURATION)
        ELSE Returns(TRUE, REASON_OK)

\* the cooldown rule with <= for <
event_deserves_coffee_inclusive(event, now) ==
    LET duration == extract_field_from_event_annotations(
                        event, EXPECTED_DURATION_LABEL)
        marker == extract_field_from_event_annotations(
                      event, LAST_MODIFIED_LABEL)
    IN  IF event.type \notin {"ADDED", "MODIFIED"}
        THEN Returns(FALSE, REASON_TYPE)
        ELSE IF event.object.kind # "Pod"
        THEN Returns(FALSE, REASON_KIND)
        ELSE IF int_or_0_raises(duration)
        THEN Raises("ValueError")
        ELSE IF int_or_0(duration) < MinDuration
        THEN Returns(FALSE, REASON_DURATION)
        ELSE IF int_or_0_raises(marker)
        THEN Raises("ValueError")
        ELSE IF seconds_since_last_modification(event, now) <= Cooldown
        THEN Returns(FALSE, REASON_COOLDOWN)
        ELSE Returns(TRUE, REASON_OK)

event_deserves_coffee(event, now) ==
    LET obj == event.object
        duration == extract_field_from_event_annotations(
                        event, EXPECTED_DURATION_LABEL)
        marker == extract_field_from_event_annotations(
                      event, LAST_MODIFIED_LABEL)
    IN  IF event.type \notin {"ADDED", "MODIFIED"}
        THEN Returns(FALSE, REASON_TYPE)
        ELSE IF obj.kind # "Pod"
        THEN Returns(FALSE, REASON_KIND)
        ELSE IF int_or_0_raises(duration)
        THEN Raises("ValueError")
        ELSE IF int_or_0(duration) < MinDuration
        THEN Returns(FALSE, REASON_DURATION)
        ELSE IF int_or_0_raises(marker)
        THEN Raises("ValueError")
        ELSE IF seconds_since_last_modification(event, now) < Cooldown
        THEN Returns(FALSE, REASON_COOLDOWN)
        ELSE Returns(TRUE, REASON_OK)

(***************************************************************************)
(* The conditional patch.                                                  *)
(***************************************************************************)
\* a patch that leaves the resource version out
generate_annotation_patch_unconditional(event, now) ==
    [annotations |-> (LAST_MODIFIED_LABEL :> str(now)),
     resource_version |-> EmptyStr]

\* a patch that stamps milliseconds
generate_annotation_patch_millis(event, now) ==
    [annotations |-> (LAST_MODIFIED_LABEL :> str(now * 1000)),
     resource_version |->
        IF event.object.resource_version = EmptyStr
        THEN <<"0">>
        ELSE event.object.resource_version]

\* generate_annotation_patch sending back every annotation of the event
generate_annotation_patch_whole(event, now) ==
    [annotations |->
        [k \in DOMAIN event.object.annotations \cup {LAST_MODIFIED_LABEL} |->
            IF k = LAST_MODIFIED_LABEL
            THEN str(now)
            ELSE event.object.annotations[k]],
     resource_version |->
        IF event.object.resource_version = EmptyStr
        THEN <<"0">>
        ELSE event.object.resource_version]

generate_annotation_patch(event, now) ==
    LET event_object == event.object
        resource_version ==
            IF event_object.resource_version = EmptyStr
            THEN <<"0">>
            ELSE event_object.resource_version
    IN  [annotations |-> (LAST_MODIFIED_LABEL :> str(now)),
         resource_version |-> resource_version]

\* the store's answer to patch_namespaced_pod when it is reachable: a patch
\* that carries a resource version is accepted only against the version the
\* store holds; one that carries none is unconditional
StoreAnswer(s, p) ==
    IF p.resource_version = EmptyStr \/ p.resource_version = str(s.version)
    THEN "Applied"
    ELSE "Conflict"

\* what the store can answer: its verdict, or an error other than Conflict
StoreResponses(s, p) == {StoreAnswer(s, p), "Fault"}

\* the Pod after the store merged the patch into it
Patched(s, p) ==
    [kind |-> s.kind,
     annotations |->
        [k \in DOMAIN s.annotations \cup DOMAIN p.annotations |->
            IF k \in DOMAIN p.annotations
            THEN p.annotations[k]
            ELSE s.annotations[k]],
     version |-> s.version + 1]

\* apply_patch_on_pod reporting a conflict as success
apply_patch_on_pod_swallow_conflict(response) ==
    IF response \in {"Applied", "Conflict"}
    THEN [raised |-> FALSE, value |-> TRUE]
    ELSE [raised |-> TRUE, value |-> FALSE]

\* apply_patch_on_pod without the test for Conflict: every error is raised
apply_patch_on_pod_raise_conflict(response) ==
    IF response = "Applied"
    THEN [raised |-> FALSE, value |-> TRUE]
    ELSE [raised |-> TRUE, value |-> FALSE]

\* apply_patch_on_pod with a bare except: every error is a conflict
apply_patch_on_pod_swallow_fault(response) ==
    IF response = "Applied"
    THEN [raised |-> FALSE, value |-> TRUE]
    ELSE [raised |-> FALSE, value |-> FALSE]

\* apply_patch_on_pod falling off its end after a successful call
apply_patch_on_pod_no_return(response) ==
    IF response \in {"Applied", "Conflict"}
    THEN [raised |-> FALSE, value |-> FALSE]
    ELSE [raised |-> TRUE, value |-> FALSE]

\* apply_patch_on_pod, given the store's response
apply_patch_on_pod(response) ==
    IF response = "Applied" THEN [raised |-> FALSE, value |-> TRUE]
    ELSE IF response = "Conflict" THEN [raised |-> FALSE, value |-> FALSE]
    ELSE [raised |-> TRUE, value |-> FALSE]

\* annotate_pod reporting success whatever apply_patch_on_pod returned
annotate_pod_always_ok(patch_applied) == Returns(TRUE, REASON_ANNOTATED)

\* annotate_pod, given what apply_patch_on_pod returned
annotate_pod(patch_applied) ==
    IF patch_applied
    THEN Returns(TRUE, REASON_ANNOTATED)
    ELSE Returns(FALSE, REASON_NEWER)

(***************************************************************************)
(* Initial states.                                                         *)
(***************************************************************************)
\* the instants the clock is observed at
ClockValues == {87400, 173800}

InitClocks == {87400}

\* the annotation mappings that set each key to one of its values or, for
\* the empty string, not at all
AnnotationMaps(durations, markers, others) ==
    LET Keys(d, m, o) ==
            (IF d = EmptyStr THEN {} ELSE {EXPECTED_DURATION_LABEL})
            \cup (IF m = EmptyStr THEN {} ELSE {LAST_MODIFIED_LABEL})
            \cup (IF o = EmptyStr THEN {} ELSE {OTHER_LABEL})
    IN  {[k \in Keys(d, m, o) |->
            IF k = EXPECTED_DURATION_LABEL THEN d
            ELSE IF k = LAST_MODIFIED_LABEL THEN m
            ELSE o] :
         d \in durations, m \in markers, o \in others}

\* a long-running Pod that never got a coffee
InitStores ==
    [kind : {"Pod"},
     annotations : AnnotationMaps({<<"1", "2", "0">>},
                                  {EmptyStr},
                                  {<<"w", "e", "b">>}),
     version : {5}]

Init ==
    /\ clock \in InitClocks
    /\ store \in InitStores
    /\ streams = [i \in Instances |-> <<>>]
    /\ pc = [i \in Instances |-> "idle"]
    /\ cur = [i \in Instances |-> NoEvent]
    /\ verdict = [i \in Instances |-> NoVerdict]
    /\ patch = [i \in Instances |-> NoPatch]
    /\ outcome = [i \in Instances |-> "None"]
    /\ logs = [i \in Instances |-> <<>>]
    /\ attempts = <<>>
    /\ coffees = {}
    /\ nextId = 1
    /\ otherWrites = 0

(***************************************************************************)
(* Actions.                                                                *)
(***************************************************************************)
\* a log record: the message and what it is about
Record(message, detail) == [message |-> message, detail |-> detail]

\* logger_handler: one record for every event
logger_handler(event) == <<Record("handling event", event.type)>>

\* coffee_handler without the return on an ineligible event
coffee_handler_no_return(result) ==
    IF result.raised THEN "terminated" ELSE "generate"

\* coffee_handler: where it goes on what event_deserves_coffee returned
coffee_handler_after_evaluation(result) ==
    IF result.raised THEN "terminated"
    ELSE IF ~result.ok THEN "idle"
    ELSE "generate"

\* the Pod of the store is never deleted, so its watch yields no DELETED
\* event (the handling of one is in SpecHandler)
StreamTypes == {"ADDED", "MODIFIED"}

\* the instance's watch has yielded an event already
Listed(i) == cur[i].id # 0 \/ streams[i] # <<>>

\* the watch yields an event carrying the Pod as the store holds it now:
\* ADDED when it lists the Pod, MODIFIED or DELETED from then on
Deliver(i, type) ==
    /\ pc[i] # "terminated"
    /\ nextId <= MaxEvents
    /\ type = "ADDED" <=> ~Listed(i)
    /\ streams' = [streams EXCEPT ![i] =
            Append(@, [id |-> nextId, type |-> type,
                       object |-> Snapshot(store)])]
    /\ nextId' = nextId + 1
    /\ UNCHANGED <<clock, store, pc, cur, verdict, patch, outcome, logs,
                   attempts, coffees, otherWrites>>

\* the stream ended and main entered process_stream again: the watch lists
\* the Pod anew, as the store holds it now or, from a stale cache, as the
\* instance saw it last
Reconnect(i) ==
    /\ pc[i] = "idle"
    /\ streams[i] = <<>>
    /\ cur[i].id # 0
    /\ nextId <= MaxEvents
    /\ \E object \in {Snapshot(store), cur[i].object} :
          streams' = [streams EXCEPT ![i] =
              <<[id |-> nextId, type |-> "ADDED", object |-> object]>>]
    /\ nextId' = nextId + 1
    /\ UNCHANGED <<clock, store, pc, cur, verdict, patch, outcome, logs,
                   attempts, coffees, otherWrites>>

\* process_stream takes the next event; logger_handler logs it;
\* coffee_handler evaluates it (and returns when it is not eligible)
Evaluate(i) ==
    /\ pc[i] = "idle"
    /\ streams[i] # <<>>
    /\ LET event == Head(streams[i])
           result == event_deserves_coffee(event, clock)
       IN  /\ streams' = [streams EXCEPT ![i] = Tail(@)]
           /\ cur' = [cur EXCEPT ![i] = event]
           /\ verdict' = [verdict EXCEPT ![i] =
                  [raised |-> result.raised, ok |-> result.ok,
                   reason |-> result.reason, now |-> clock]]
           /\ patch' = [patch EXCEPT ![i] = NoPatch]
           /\ pc' = [pc EXCEPT ![i] = coffee_handler_after_evaluation(result)]
           /\ IF result.raised
              THEN /\ outcome' = [outcome EXCEPT ![i] = "ValueError"]
                   /\ logs' = [logs EXCEPT ![i] = logger_handler(event)]
              ELSE IF ~result.ok
              THEN /\ outcome' = [outcome EXCEPT ![i] = "Ineligible"]
                   /\ logs' = [logs EXCEPT ![i] =
                          Append(logger_handler(event),
                                 Record("Sorry", result.reason))]
              ELSE /\ outcome' = [outcome EXCEPT ![i] = "Eligible"]
                   /\ logs' = [logs EXCEPT ![i] = logger_handler(event)]
    /\ UNCHANGED <<clock, store, attempts, coffees, nextId, otherWrites>>

\* annotate_pod builds the patch, reading the clock again
GeneratePatch(i) ==
    /\ pc[i] = "generate"
    /\ patch' = [patch EXCEPT ![i] = generate_annotation_patch(cur[i], clock)]
    /\ pc' = [pc EXCEPT ![i] = "apply"]
    /\ UNCHANGED <<clock, store, streams, cur, verdict, outcome, logs,
                   attempts, coffees, nextId, otherWrites>>

\* the store answers the patch; coffee_handler goes on to make_coffee only
\* when annotate_pod reports success
ApplyPatch(i) ==
    /\ pc[i] = "apply"
    /\ \E response \in StoreResponses(store, patch[i]) :
          LET patch_applied == apply_patch_on_pod(response)
              result == annotate_pod(patch_applied.value)
          IN  /\ store' = IF response = "Applied"
                          THEN Patched(store, patch[i])
                          ELSE store
              /\ attempts' = Append(attempts,
                     [id |-> cur[i].id,
                      instance |-> i,
                      resource_version |-> patch[i].resource_version,
                      marker |-> patch[i].annotations[LAST_MODIFIED_LABEL],
                      token_before |-> str(store.version),
                      response |-> response,
                      raised |-> patch_applied.raised,
                      returned |-> patch_applied.value])
              /\ IF patch_applied.raised
                 THEN /\ pc' = [pc EXCEPT ![i] = "terminated"]
                      /\ outcome' = [outcome EXCEPT ![i] = "Failed"]
                      /\ logs' = logs
                 ELSE IF ~result.ok
                 THEN /\ pc' = [pc EXCEPT ![i] = "idle"]
                      /\ outcome' = [outcome EXCEPT ![i] = "Conflict"]
                      /\ logs' = [logs EXCEPT ![i] =
                             @ \o <<Record("There is a newer version of "
                                           \o "the object", ""),
                                    Record("Sorry", result.reason)>>]
                 ELSE /\ pc' = [pc EXCEPT ![i] = "coffee"]
                      /\ outcome' = [outcome EXCEPT ![i] = "Applied"]
                      /\ logs' = [logs EXCEPT ![i] =
                             @ \o <<Record("Patched", ""),
                                    Record("Good news! you're getting "
                                           \o "a coffee", "")>>]
    /\ UNCHANGED <<clock, streams, cur, verdict, patch, coffees, nextId,
                   otherWrites>>

\* make_coffee: the call to the coffee machine returns, or raises
make_coffee == {[raised |-> FALSE], [raised |-> TRUE]}

\* coffee_handler calls make_coffee; nothing catches what it raises
MakeCoffee(i) ==
    /\ pc[i] = "coffee"
    /\ coffees' = coffees \cup {[id |-> cur[i].id, instance |-> i]}
    /\ \E result \in make_coffee :
          IF result.raised
          THEN /\ pc' = [pc EXCEPT ![i] = "terminated"]
               /\ outcome' = [outcome EXCEPT ![i] = "CoffeeFailed"]
               /\ logs' = logs
          ELSE /\ pc' = [pc EXCEPT ![i] = "idle"]
               /\ outcome' = [outcome EXCEPT ![i] = "Acted"]
               /\ logs' = [logs EXCEPT ![i] =
                              Append(@, Record("Voila!", ""))]
    /\ UNCHANGED <<clock, store, streams, cur, verdict, patch, attempts,
                   nextId, otherWrites>>

\* time passes
Tick ==
    /\ \E t \in ClockValues : t > clock /\ clock' = t
    /\ UNCHANGED <<store, streams, pc, cur, verdict, patch, outcome, logs,
                   attempts, coffees, nextId, otherWrites>>

\* another writer (a kubelet, a user) updates the Pod: the store gives it a
\* new version; the marker is left alone
OtherWriter ==
    /\ otherWrites < MaxOtherWrites
    /\ store' = [store EXCEPT !.version = @ + 1]
    /\ otherWrites' = otherWrites + 1
    /\ UNCHANGED <<clock, streams, pc, cur, verdict, patch, outcome, logs,
                   attempts, coffees, nextId>>

Next ==
    \/ \E i \in Instances, type \in StreamTypes : Deliver(i, type)
    \/ \E i \in Instances : Reconnect(i)
    \/ \E i \in Instances : Evaluate(i)
    \/ \E i \in Instances : GeneratePatch(i)
    \/ \E i \in Instances : ApplyPatch(i)
    \/ \E i \in Instances : MakeCoffee(i)
    \/ Tick
    \/ OtherWriter

Spec == Init /\ [][Next]_vars

(***************************************************************************)
(* The handling of one event, over wide inputs: every event type, kind,    *)
(* annotation value and clock reading, against a store that holds the      *)
(* event's snapshot or has moved one version on.                           *)
(***************************************************************************)
HandlerClocks == {0, 1000, 1050, 86399, 86400, 87400}

HandlerDurations ==
    {EmptyStr, <<"1", "2", "0">>,
     <<"6", "0">>,
     <<"5", "9">>,
     <<" ", "6", "0", " ">>,
     <<"1", "_", "2", "0">>,
     <<"-", "6", "0">>,
     <<"a", "b", "c">>,
     <<"6", "0", "s">>,
     <<" ">>}

HandlerMarkers ==
    {EmptyStr, <<"1", "0", "0", "0">>,
     <<"0">>,
     <<"1", "_", "0", "0", "0">>,
     <<"n", "o", "w">>}

HandlerOthers == {EmptyStr, <<"w", "e", "b">>}

InitHandler ==
    /\ clock \in HandlerClocks
    /\ \E kind \in {"Pod", "Job"}, type \in EventTypes,
          annotations \in AnnotationMaps(HandlerDurations, HandlerMarkers,
                                         HandlerOthers),
          version \in {0, 5}, newer \in {0, 1} :
          /\ store = [kind |-> kind, annotations |-> annotations,
                      version |-> version + newer]
          /\ streams = [i \in Instances |->
                IF i = "c1"
                THEN <<[id |-> 1, type |-> type,
                        object |-> Snapshot([kind |-> kind,
                                             annotations |-> annotations,
                                             version |-> version])]>>
                ELSE <<>>]
    /\ pc = [i \in Instances |-> "idle"]
    /\ cur = [i \in Instances |-> NoEvent]
    /\ verdict = [i \in Instances |-> NoVerdict]
    /\ patch = [i \in Instances |-> NoPatch]
    /\ outcome = [i \in Instances |-> "None"]
    /\ logs = [i \in Instances |-> <<>>]
    /\ attempts = <<>>
    /\ coffees = {}
    /\ nextId = 2
    /\ otherWrites = 0

NextHandler ==
    \/ \E i \in Instances : Evaluate(i)
    \/ \E i \in Instances : GeneratePatch(i)
    \/ \E i \in Instances : ApplyPatch(i)
    \/ \E i \in Instances : MakeCoffee(i)

SpecHandler == InitHandler /\ [][NextHandler]_vars

(***************************************************************************)
(* Properties.                                                             *)
(***************************************************************************)
Handled(i) == outcome[i] # "None"

Actionable(event) == event.type \in {"ADDED", "MODIFIED"}

HasAnnotation(event, key) == key \in DOMAIN event.object.annotations

\* the annotation is present and int() rejects it
Malformed(event, key) ==
    /\ HasAnnotation(event, key)
    /\ int_raises(event.object.annotations[key])

\* the duration hint is a number of at least 60
LongRunning(event) ==
    /\ HasAnnotation(event, EXPECTED_DURATION_LABEL)
    /\ ~int_raises(event.object.annotations[EXPECTED_DURATION_LABEL])
    /\ int_value(event.object.annotations[EXPECTED_DURATION_LABEL]) >= 60

AttemptsFor(id) == {k \in 1..Len(attempts) : attempts[k].id = id}

AppliedFor(id) ==
    {k \in AttemptsFor(id) : attempts[k].response = "Applied"}

\* C1: make_coffee is invoked for an event only after the store accepted the
\* marker patch of that same event; an event that was ineligible, whose patch
\* met a conflict, or whose patch raised gets no coffee.
C1_CoffeeOnlyAfterApplied ==
    /\ \A c \in coffees :
          \E k \in AppliedFor(c.id) : attempts[k].instance = c.instance
    /\ \A i \in Instances :
          /\ pc[i] = "coffee" => AppliedFor(cur[i].id) # {}
          /\ outcome[i] \in {"Ineligible", "Conflict", "Failed", "ValueError"}
                => \A c \in coffees : c.id # cur[i].id

\* a coffee was made, and another event's patch met a conflict and made none
C1_Witness ==
    /\ coffees # {}
    /\ \E i \in Instances :
          /\ outcome[i] = "Conflict"
          /\ \A c \in coffees : c.id # cur[i].id

\* the marker value the coffee for an event corresponds to
MarkerOfCoffee(c) ==
    int_value(attempts[CHOOSE k \in AppliedFor(c.id) : TRUE].marker)

\* C2: any two coffees for the Pod, whichever instances made them, correspond
\* to marker values at least 86400 seconds apart.
C2_OneCoffeePerCooldown ==
    \A c1, c2 \in coffees :
        c1 # c2 =>
            \/ MarkerOfCoffee(c1) - MarkerOfCoffee(c2) >= 86400
            \/ MarkerOfCoffee(c2) - MarkerOfCoffee(c1) >= 86400

\* two instances each made a coffee
C2_Witness ==
    \E c1, c2 \in coffees : c1.instance # c2.instance

\* two patch calls carry the same version token, the token is the store's
\* when the earlier one is answered, and the store answers both
SameTokenCalls(j, k) ==
    /\ j < k
    /\ attempts[j].resource_version = attempts[k].resource_version
    /\ attempts[j].token_before = attempts[j].resource_version
    /\ attempts[j].response # "Fault"
    /\ attempts[k].response # "Fault"

\* C3: of two patch calls that carry the same version token, current when the
\* first is answered, the first returns True (Applied) and the second returns
\* False (Conflict), whether the calls come from one instance or from two.
C3_OneAppliedOneConflict ==
    \A j, k \in 1..Len(attempts) :
        SameTokenCalls(j, k) =>
            /\ ~attempts[j].raised /\ attempts[j].returned
            /\ ~attempts[k].raised /\ ~attempts[k].returned

\* two instances raced with the same token
C3_Witness ==
    \E j, k \in 1..Len(attempts) :
        /\ SameTokenCalls(j, k)
        /\ attempts[j].instance # attempts[k].instance

\* the policy as specified: a missing or malformed number counts as 0
parse_int(x) == IF x = EmptyStr \/ int_raises(x) THEN 0 ELSE int_value(x)

evaluate(event, now) ==
    LET duration == parse_int(extract_field_from_event_annotations(
                                  event, EXPECTED_DURATION_LABEL))
        marker == parse_int(extract_field_from_event_annotations(
                                event, LAST_MODIFIED_LABEL))
    IN  IF event.type \notin {"ADDED", "MODIFIED"} THEN <<FALSE, REASON_TYPE>>
        ELSE IF event.object.kind # "Pod" THEN <<FALSE, REASON_KIND>>
        ELSE IF duration < 60 THEN <<FALSE, REASON_DURATION>>
        ELSE IF now - marker < 86400 THEN <<FALSE, REASON_COOLDOWN>>
        ELSE <<TRUE, REASON_OK>>

\* C4: for an ADDED or MODIFIED event on a Pod whose duration hint or marker
\* is malformed, event_deserves_coffee does not raise and returns what the
\* rules give with the malformed value counted as 0.
C4_MalformedCountsAsZero ==
    \A i \in Instances :
        /\ Handled(i)
        /\ Actionable(cur[i])
        /\ cur[i].object.kind = "Pod"
        /\ \/ Malformed(cur[i], EXPECTED_DURATION_LABEL)
           \/ Malformed(cur[i], LAST_MODIFIED_LABEL)
        => /\ ~verdict[i].raised
           /\ <<verdict[i].ok, verdict[i].reason>>
                 = evaluate(cur[i], verdict[i].now)

\* C5: an instance whose patch raised a store error other than Conflict goes
\* on with the stream: it is not terminated.
C5_LoopSurvivesStoreFault ==
    \A i \in Instances : outcome[i] = "Failed" => pc[i] # "terminated"

\* C6: event_deserves_coffee is total and returns, for every type, kind,
\* duration hint, marker and clock reading, what the four rules give in
\* their order.
C6_EvaluateEqualsRules ==
    \A i \in Instances :
        Handled(i) =>
            /\ ~verdict[i].raised
            /\ <<verdict[i].ok, verdict[i].reason>>
                  = evaluate(cur[i], verdict[i].now)

\* C7: an event that is neither ADDED nor MODIFIED is ineligible for its
\* type, whatever its kind and annotations; no patch is generated or
\* submitted for it and no coffee is made.
C7_WrongTypeNeverActs ==
    \A i \in Instances :
        Handled(i) /\ ~Actionable(cur[i]) =>
            /\ ~verdict[i].raised
            /\ ~verdict[i].ok
            /\ verdict[i].reason = REASON_TYPE
            /\ outcome[i] = "Ineligible"
            /\ pc[i] = "idle"
            /\ patch[i] = NoPatch
            /\ AttemptsFor(cur[i].id) = {}
            /\ \A c \in coffees : c.id # cur[i].id

\* a DELETED event on a Pod with a malformed duration hint was handled
C7_Witness ==
    \E i \in Instances :
        /\ Handled(i)
        /\ cur[i].type = "DELETED"
        /\ cur[i].object.kind = "Pod"
        /\ Malformed(cur[i], EXPECTED_DURATION_LABEL)

\* an ADDED or MODIFIED event on a long-running Pod without marker
NeverActedUpon(i) ==
    /\ Handled(i)
    /\ Actionable(cur[i])
    /\ cur[i].object.kind = "Pod"
    /\ LongRunning(cur[i])
    /\ ~HasAnnotation(cur[i], LAST_MODIFIED_LABEL)

ScenarioA(i, now) ==
    /\ Handled(i)
    /\ cur[i].type = "MODIFIED"
    /\ cur[i].object.kind = "Pod"
    /\ HasAnnotation(cur[i], EXPECTED_DURATION_LABEL)
    /\ cur[i].object.annotations[EXPECTED_DURATION_LABEL] = <<"1", "2", "0">>
    /\ ~HasAnnotation(cur[i], LAST_MODIFIED_LABEL)
    /\ verdict[i].now = now

\* the patch of the event instance i handles carried the store's token and
\* the store answered it
AnsweredWithCurrentToken(i) ==
    \E k \in AttemptsFor(cur[i].id) :
        /\ attempts[k].token_before = attempts[k].resource_version
        /\ attempts[k].response # "Fault"

\* scenario A goes as told at the clock reading now: eligible; and once the
\* patch, generated at the same reading and carrying the store's token, is
\* answered, it is applied and the store holds the marker text
ScenarioAHolds(i, now, text) ==
    /\ ~verdict[i].raised
    /\ verdict[i].ok
    /\ verdict[i].reason = REASON_OK
    /\ AnsweredWithCurrentToken(i) /\ clock = now =>
          /\ outcome[i] \in {"Applied", "Acted", "CoffeeFailed"}
          /\ \A k \in AttemptsFor(cur[i].id) : attempts[k].returned
          /\ LAST_MODIFIED_LABEL \in DOMAIN store.annotations
          /\ store.annotations[LAST_MODIFIED_LABEL] = text

Instants == ClockValues \cup HandlerClocks

\* the event instance i evaluated is an ADDED or MODIFIED event on the
\* long-running Pod and carries a marker that an applied patch wrote
CarriesAppliedMarker(i) ==
    /\ Handled(i)
    /\ Actionable(cur[i])
    /\ cur[i].object.kind = "Pod"
    /\ HasAnnotation(cur[i], LAST_MODIFIED_LABEL)
    /\ \E k \in 1..Len(attempts) :
          /\ attempts[k].response = "Applied"
          /\ attempts[k].marker = cur[i].object.annotations[LAST_MODIFIED_LABEL]
          /\ attempts[k].id # cur[i].id
    /\ LongRunning(cur[i])

\* the marker instance i's event carries is the text of the clock reading t
MarkerIs(i, t) == cur[i].object.annotations[LAST_MODIFIED_LABEL] = str(t)

\* C10: after a patch wrote the marker t, an ADDED or MODIFIED event that
\* carries the updated Pod is ineligible for cooldown while now - t < 86400
\* and eligible once now - t >= 86400.
C10_DebounceAfterWrite ==
    \A i \in Instances :
        CarriesAppliedMarker(i) =>
            /\ ~verdict[i].raised
            /\ \E t \in Instants : MarkerIs(i, t)
            /\ \A t \in Instants :
                  MarkerIs(i, t) =>
                      /\ verdict[i].now - t < 86400 =>
                            /\ ~verdict[i].ok
                            /\ verdict[i].reason = REASON_COOLDOWN
                      /\ verdict[i].now - t >= 86400 =>
                            /\ verdict[i].ok
                            /\ verdict[i].reason = REASON_OK

\* an event carrying an applied marker was found eligible again
C10_Witness ==
    \E i \in Instances, t \in Instants :
        /\ CarriesAppliedMarker(i)
        /\ MarkerIs(i, t)
        /\ verdict[i].now - t >= 86400
        /\ verdict[i].ok

\* an event carrying an applied marker was refused for cooldown
C10_WitnessCooldown ==
    \E i \in Instances, t \in Instants :
        /\ CarriesAppliedMarker(i)
        /\ MarkerIs(i, t)
        /\ verdict[i].now - t < 86400
        /\ verdict[i].reason = REASON_COOLDOWN

\* the patch call k carried a token other than the store's and the store
\* answered it
StaleCall(k) ==
    /\ attempts[k].resource_version # attempts[k].token_before
    /\ attempts[k].response # "Fault"

\* instance i's patch, carrying a token other than the store's, is answered
\* in this step
StaleAnswered(i) ==
    /\ pc[i] = "apply"
    /\ pc'[i] # "apply"
    /\ patch[i].resource_version # str(store.version)
    /\ attempts'[Len(attempts')].response # "Fault"

\* C11: a patch whose token differs from the store's returns False (Conflict)
\* without raising; the handler returns, the Pod in the store keeps its
\* annotations and version, the event gets exactly one patch call and no
\* coffee.
C11_StaleTokenConflicts ==
    /\ [](\A k \in 1..Len(attempts) :
            StaleCall(k) =>
                /\ attempts[k].response = "Conflict"
                /\ ~attempts[k].raised
                /\ ~attempts[k].returned
                /\ Cardinality(AttemptsFor(attempts[k].id)) = 1
                /\ \A c \in coffees : c.id # attempts[k].id)
    /\ [][\A i \in Instances :
            StaleAnswered(i) =>
                /\ store' = store
                /\ coffees' = coffees
                /\ pc'[i] = "idle"
                /\ outcome'[i] = "Conflict"]_vars

\* scenario E: a snapshot with token "5" met a store with token "6"
C11_Witness ==
    \E i \in Instances, k \in 1..Len(attempts) :
        /\ StaleCall(k)
        /\ attempts[k].id = cur[i].id
        /\ attempts[k].resource_version = <<"5">>
        /\ attempts[k].token_before = <<"6">>
        /\ outcome[i] = "Conflict"

\* C12: a store error other than Conflict is raised by apply_patch_on_pod,
\* not returned as True or False: the handling of the event ends in the
\* error and no coffee is made for it.
C12_StoreFaultPropagates ==
    \A k \in 1..Len(attempts) :
        attempts[k].response = "Fault" =>
            /\ attempts[k].raised
            /\ ~attempts[k].returned
            /\ \A c \in coffees : c.id # attempts[k].id
            /\ cur[attempts[k].instance].id = attempts[k].id
            /\ outcome[attempts[k].instance] = "Failed"
            /\ pc[attempts[k].instance] = "terminated"

\* a patch call met a store error
C12_Witness ==
    \E k \in 1..Len(attempts) :
        /\ attempts[k].response = "Fault"
        /\ outcome[attempts[k].instance] = "Failed"

\* the Pod's marker, the empty string when it has none
MarkerOf(s) ==
    IF LAST_MODIFIED_LABEL \in DOMAIN s.annotations
    THEN s.annotations[LAST_MODIFIED_LABEL]
    ELSE EmptyStr

\* in this step the store applies the patch of an event that instance i
\* found eligible
EligibleApplied(i) ==
    /\ pc[i] = "apply"
    /\ ~verdict[i].raised
    /\ verdict[i].ok
    /\ outcome[i] = "Eligible"
    /\ outcome'[i] = "Applied"
    /\ attempts'[Len(attempts')].id = cur[i].id
    /\ attempts'[Len(attempts')].response = "Applied"
    /\ MarkerOf(store') = patch[i].annotations[LAST_MODIFIED_LABEL]

\* C13: the marker in the store changes only in a step where the store
\* applies the patch of an event found eligible, and a marker is never
\* removed or blanked.
C13_MarkerOnlyByEligibleApplied ==
    [][MarkerOf(store') # MarkerOf(store) =>
          /\ MarkerOf(store') # EmptyStr
          /\ \E i \in Instances : EligibleApplied(i)]_vars

\* the store holds a marker written by an applied patch, while another
\* event met a conflict and one was ineligible
C13_Witness ==
    /\ \E k \in 1..Len(attempts) :
          /\ attempts[k].response = "Applied"
          /\ MarkerOf(store) = attempts[k].marker
    /\ \E i \in Instances : outcome[i] \in {"Conflict", "Ineligible"}

\* instance i evaluated its event less than 86400 seconds after the marker
\* that the patch call k, made for another event, got applied
WithinCooldownOf(i, k) ==
    /\ Handled(i)
    /\ attempts[k].response = "Applied"
    /\ attempts[k].id # cur[i].id
    /\ verdict[i].now - int_value(attempts[k].marker) >= 0
    /\ verdict[i].now - int_value(attempts[k].marker) < 86400

\* C14: an event delivered again within 86400 seconds of an applied marker
\* makes no coffee: with the Pod as it is now it is refused for cooldown,
\* with the Pod as it was before the write its patch meets a conflict.
C14_ReplayMakesNoCoffee ==
    \A i \in Instances, k \in 1..Len(attempts) :
        WithinCooldownOf(i, k) =>
            /\ outcome[i] \notin {"Applied", "Acted", "CoffeeFailed"}
            /\ pc[i] # "coffee"
            /\ \A c \in coffees : c.id # cur[i].id
            /\ MarkerOf(cur[i].object) = attempts[k].marker =>
                  /\ ~verdict[i].ok
                  /\ Actionable(cur[i]) => verdict[i].reason = REASON_COOLDOWN
            /\ \A j \in AttemptsFor(cur[i].id) :
                  attempts[j].response # "Fault" =>
                      /\ attempts[j].response = "Conflict"
                      /\ outcome[i] = "Conflict"

\* the instance whose patch was applied reconnected, got the Pod listed as
\* it was before the write, and its patch met a conflict
C14_Witness ==
    \E i \in Instances, k \in 1..Len(attempts) :
        /\ WithinCooldownOf(i, k)
        /\ attempts[k].instance = i
        /\ cur[i].id > attempts[k].id
        /\ cur[i].type = "ADDED"
        /\ MarkerOf(cur[i].object) = EmptyStr
        /\ outcome[i] = "Conflict"

\* the instance whose patch was applied reconnected, got the Pod listed as
\* it is now, and refused it for cooldown
C14_WitnessCurrent ==
    \E i \in Instances, k \in 1..Len(attempts) :
        /\ WithinCooldownOf(i, k)
        /\ attempts[k].instance = i
        /\ cur[i].id > attempts[k].id
        /\ cur[i].type = "ADDED"
        /\ MarkerOf(cur[i].object) = attempts[k].marker
        /\ verdict[i].reason = REASON_COOLDOWN

\* the records instance i emitted once the decision on its event was taken
DecisionRecords(i) ==
    {n \in 1..Len(logs[i]) : logs[i][n].message # "handling event"}

\* C15: whatever the decision on an event - ineligible, conflict, success,
\* store fault - at least one log record tells it; the record of an
\* ineligible event carries the reason.
C15_EveryDecisionLogged ==
    \A i \in Instances :
        /\ outcome[i] = "Ineligible" =>
              \E n \in DecisionRecords(i) :
                  logs[i][n] = Record("Sorry", verdict[i].reason)
        /\ outcome[i] = "Conflict" =>
              \E n \in DecisionRecords(i) :
                  logs[i][n].message = "There is a newer version of the object"
        /\ outcome[i] \in {"Applied", "Acted", "CoffeeFailed"} =>
              \E n \in DecisionRecords(i) : logs[i][n].message = "Patched"
        /\ outcome[i] = "Failed" => DecisionRecords(i) # {}

\* the patch of instance i names the marker alone, and the version of the
\* event's snapshot ('0' when the snapshot has none)
MarkerOnlyPatch(i) ==
    /\ DOMAIN patch[i].annotations = {LAST_MODIFIED_LABEL}
    /\ patch[i].resource_version =
          IF cur[i].object.resource_version = EmptyStr
          THEN <<"0">>
          ELSE cur[i].object.resource_version

\* from one state to the next the store changed in its marker and its
\* version, and in nothing else
OnlyMarkerAndVersionChange ==
    /\ store'.kind = store.kind
    /\ store'.version # store.version
    /\ DOMAIN store'.annotations =
          DOMAIN store.annotations \cup {LAST_MODIFIED_LABEL}
    /\ \A k \in DOMAIN store.annotations \ {LAST_MODIFIED_LABEL} :
          store'.annotations[k] = store.annotations[k]

\* C16: the patch an instance submits holds the marker annotation and the
\* snapshot's version ('0' when it has none) and nothing else; when the store
\* applies it, every other annotation of the Pod, the duration hint included,
\* stays as it was and only the marker and the version change; an ineligible
\* event submits no patch.
C16_PatchTouchesMarkerOnly ==
    /\ [](\A i \in Instances :
            /\ pc[i] \in {"apply", "coffee"} => MarkerOnlyPatch(i)
            /\ outcome[i] \in {"Conflict", "Applied", "Acted", "CoffeeFailed",
                                 "Failed"}
                  => MarkerOnlyPatch(i)
            /\ outcome[i] = "Ineligible" =>
                  /\ patch[i] = NoPatch
                  /\ AttemptsFor(cur[i].id) = {})
    /\ [][\A i \in Instances :
            pc[i] = "apply" /\ pc'[i] = "coffee" =>
                /\ OnlyMarkerAndVersionChange
                /\ store'.annotations[LAST_MODIFIED_LABEL] =
                      patch[i].annotations[LAST_MODIFIED_LABEL]]_vars

\* an applied patch that carried '0' for a snapshot without a version, on a
\* Pod that keeps its duration hint and its other annotation
C16_Witness ==
    /\ outcome["c1"] = "Applied"
    /\ cur["c1"].object.resource_version = EmptyStr
    /\ patch["c1"].resource_version = <<"0">>
    /\ {EXPECTED_DURATION_LABEL, OTHER_LABEL, LAST_MODIFIED_LABEL}
          \subseteq DOMAIN store.annotations
    /\ LAST_MODIFIED_LABEL \in DOMAIN cur["c1"].object.annotations
    /\ store.annotations[EXPECTED_DURATION_LABEL] = <<"1", "2", "0">>
    /\ store.annotations[OTHER_LABEL] = <<"w", "e", "b">>

\* an ineligible event: nothing was submitted
C16_WitnessIneligible ==
    /\ outcome["c1"] = "Ineligible"
    /\ Actionable(cur["c1"])
    /\ attempts = <<>>

\* instance i handled an event that came after one that ended in Conflict,
\* and that satisfies the rules at the instant it was evaluated
RetryAfterConflict(i) ==
    /\ Handled(i)
    /\ \E j \in 1..Len(attempts) :
          /\ attempts[j].response = "Conflict"
          /\ attempts[j].id < cur[i].id
    /\ evaluate(cur[i], verdict[i].now)[1]

\* the patch call k carried the version the store held when it arrived (the
\* event's snapshot was current and nobody wrote in between), and the store
\* answered it
CurrentAndAnswered(k) ==
    /\ attempts[k].resource_version = attempts[k].token_before
    /\ attempts[k].response # "Fault"

\* C17: a Conflict defers the coffee, it does not lose it.  An event that
\* comes after a Conflict, still satisfies the duration and cooldown rules
\* and carries the Pod as the store holds it when the patch arrives, is found
\* eligible, has its patch applied by the answering store, and make_coffee is
\* invoked for it.
C17_ConflictDefers ==
    \A i \in Instances :
        RetryAfterConflict(i) =>
            /\ outcome[i] \notin {"Ineligible", "ValueError"}
            /\ \A k \in AttemptsFor(cur[i].id) :
                  CurrentAndAnswered(k) =>
                      /\ attempts[k].response = "Applied"
                      /\ attempts[k].returned
                      /\ outcome[i] \in {"Applied", "Acted", "CoffeeFailed"}
                      /\ \/ pc[i] = "coffee"
                         \/ \E c \in coffees : c.id = cur[i].id

\* after a Conflict on one event, a later event got its patch applied and
\* its coffee made
C17_Witness ==
    \E i \in Instances, k \in 1..Len(attempts) :
        /\ RetryAfterConflict(i)
        /\ attempts[k].id = cur[i].id
        /\ CurrentAndAnswered(k)
        /\ outcome[i] = "Acted"
        /\ \E c \in coffees : c.id = cur[i].id

C20_MarkerIsEvaluationClock ==
    \A i \in Instances :
        pc[i] \in {"apply", "coffee"} =>
            patch[i].annotations[LAST_MODIFIED_LABEL] = str(verdict[i].now)

====
